---- MODULE Spec2Model ----
(***************************************************************************)
(* Model of the Bitbucket command-line tool (src/src/index-cli.ts) and of  *)
(* the API client it drives (src/src/client.ts).                           *)
(*                                                                         *)
(* Spec        one invocation of the command-line tool: main(), the        *)
(*             identifier resolver, the client operations it calls and the *)
(*             remote service answering them.                              *)
(* SpecClient  the client used as a library: a constructed BitbucketClient *)
(*             on which operations are called one after another.           *)
(*                                                                         *)
(* Strings the code inspects character by character (identifiers, numeric  *)
(* arguments) are sequences of one-character strings.  JavaScript values   *)
(* that may be undefined or NaN are small tagged records.                  *)
(***************************************************************************)
EXTENDS Integers, Sequences, FiniteSets, TLC

VARIABLES
    command,    \* process.argv[2]; NoCommand when process.argv.slice(2) is empty
    args,       \* process.argv.slice(3): the positional arguments
    loaded,     \* what loadConfig() does in this environment: throws, or a config
    history,    \* <<h>>: the remote repository's pipeline runs, newest first, as
                \* they were when the service last answered; <<>> before that
    pc,         \* where main() (or the library caller) stands
    calls,      \* the HTTP requests issued so far, in order
    replies,    \* the answers received so far, in order
    resolved,   \* <<uuid>> once resolvePipelineIdentifier has returned, else <<>>
    stdout,     \* what console.log wrote
    stderr,     \* what console.error wrote
    exitCode,   \* the process exit status, meaningful when pc = "exited"
    outcome     \* library use: what the last client operation did

vars == <<command, args, loaded, history, pc, calls, replies, resolved,
          stdout, stderr, exitCode, outcome>>

----------------------------------------------------------------------------
(* Bounds of the model *)

\* longest identifier token given on the command line
MaxTokenLen == 2
\* explicit (arbitrary) runs at the old end of the remote history
MaxOlder == 2
\* operations called on one client in library use
MaxOps == 2

(* Program constants *)

\* resolvePipelineIdentifier: client.listPipelineRuns(workspace, repo, 100)
SearchWindow == 100
\* tail-step-log: bytesStr ? parseInt(bytesStr) : 2000
DefaultTailBytes == 2000

----------------------------------------------------------------------------
(* JavaScript values *)

Undefined == [t |-> "undefined"]
NaN == [t |-> "NaN"]
Num(n) == [t |-> "number", n |-> n]
Str(s) == [t |-> "string", s |-> s]

\* ToBoolean: undefined, NaN, 0 and "" are falsy
Truthy(v) ==
    CASE v.t = "undefined" -> FALSE
      [] v.t = "NaN" -> FALSE
      [] v.t = "number" -> v.n # 0
      [] v.t = "string" -> v.s # <<>>

\* a || b
OrElse(a, b) == IF Truthy(a) THEN a ELSE b

----------------------------------------------------------------------------
(* Strings as character sequences *)

Alphabet == {"{", "-", "+", " ", "0", "1", "2", "a", "x"}

RECURSIVE SeqsUpTo(_, _)
SeqsUpTo(S, n) ==
    IF n = 0 THEN {<<>>}
    ELSE LET shorter == SeqsUpTo(S, n - 1)
         IN shorter \cup {Append(s, c) : s \in shorter, c \in S}

Range(s) == {s[i] : i \in DOMAIN s}

\* String.prototype.includes, for a one-character needle
Includes(s, c) == \E i \in DOMAIN s : s[i] = c

\* String.prototype.startsWith, for a one-character prefix
StartsWith(s, c) == Len(s) >= 1 /\ s[1] = c

Drop(s, k) == SubSeq(s, k + 1, Len(s))

Take(s, k) == SubSeq(s, 1, IF k < Len(s) THEN k ELSE Len(s))

\* parseInt: leading white space is skipped
RECURSIVE TrimStart(_)
TrimStart(s) ==
    IF s # <<>> /\ s[1] = " " THEN TrimStart(Tail(s)) ELSE s

DigitValue(c) ==
    CASE c = "0" -> 0
      [] c = "1" -> 1
      [] c = "2" -> 2
      [] c = "a" -> 10
      [] OTHER -> 99

IsDigit(c, radix) == DigitValue(c) < radix

\* the longest prefix of s made of digits of the radix
RECURSIVE DigitPrefix(_, _)
DigitPrefix(s, radix) ==
    IF s # <<>> /\ IsDigit(s[1], radix)
    THEN <<s[1]>> \o DigitPrefix(Tail(s), radix)
    ELSE <<>>

RECURSIVE DigitsValue(_, _)
DigitsValue(z, radix) ==
    IF z = <<>> THEN 0
    ELSE DigitsValue(SubSeq(z, 1, Len(z) - 1), radix) * radix
         + DigitValue(z[Len(z)])

\* the global parseInt(string) with no radix argument
ParseInt(s) ==
    LET trimmed == TrimStart(s)
        negative == StartsWith(trimmed, "-")
        unsigned == IF StartsWith(trimmed, "-") \/ StartsWith(trimmed, "+")
                    THEN Tail(trimmed) ELSE trimmed
        hex == Len(unsigned) >= 2 /\ unsigned[1] = "0" /\ unsigned[2] = "x"
        radix == IF hex THEN 16 ELSE 10
        body == IF hex THEN Drop(unsigned, 2) ELSE unsigned
        z == DigitPrefix(body, radix)
    IN IF z = <<>> THEN NaN
       ELSE Num((IF negative THEN -1 ELSE 1) * DigitsValue(z, radix))

\* a token written as a plain decimal integer: digits only
IsDecimalInteger(s) ==
    s # <<>> /\ \A i \in DOMAIN s : IsDigit(s[i], 10)

----------------------------------------------------------------------------
(* The remote service *)

\* a pipeline run summary as the service reports it
Run(n, u) == [build_number |-> n, uuid |-> u]

Uuids == {<<"{", "a", "}">>, <<"{", "b", "}">>}

BuildNumbers == {1, 12}

OlderRuns == {Run(n, u) : n \in BuildNumbers, u \in Uuids} \ {Run(12, <<"{", "b", "}">>)}

\* runs created after the explicit ones: their build numbers are higher
NewerRun(i) == Run(1000 + i, <<"{", "n", "}">>)

\* the whole history, newest first
AllRuns(h) == [i \in 1..h.newer |-> NewerRun(h.newer - i)] \o h.older

\* histories: up to MaxOlder arbitrary runs, preceded by no newer run, or by
\* enough newer runs to push them to the edge of, or out of, the search window
Histories ==
    [newer : {0, SearchWindow - 1, SearchWindow},
     older : SeqsUpTo(OlderRuns, MaxOlder)]

\* response bodies
ListBody(values) == [values |-> values, hasValues |-> TRUE, text |-> "page"]
BareBody(text) == [values |-> <<>>, hasValues |-> FALSE, text |-> text]

\* the page the service returns for a pipelines listing sorted newest first:
\* at most pagelen runs, its own page size when none is asked for
ServerPage(h, req) ==
    LET size == IF req.params.pagelen.t = "number" /\ req.params.pagelen.n > 0
                THEN req.params.pagelen.n ELSE 10
    IN ListBody(Take(AllRuns(h), size))

\* what a successful answer to a request can carry, the history being h: a
\* listing answers with the page, or with an object that has no list
Bodies(h, req) ==
    IF req.op = "listPipelineRuns"
    THEN {ServerPage(h, req), BareBody("empty")}
    ELSE {BareBody("body")}

\* JSON values of an error response
JsonString(s) == [t |-> "jsonstring", text |-> s]
JsonObject(s) == [t |-> "jsonobject", text |-> s]

\* what the HTTP library rejects with: an AxiosError with the service's
\* response (a status outside 2xx), or one with no response at all (transport)
HttpFailure(status, statusText, data) ==
    [status |-> status, statusText |-> statusText, data |-> data,
     axios |-> TRUE, message |-> "Request failed", hasResponse |-> TRUE]
TransportFailure ==
    [status |-> 0, statusText |-> "", data |-> Undefined,
     axios |-> TRUE, message |-> "Network Error", hasResponse |-> FALSE]

Failures ==
    {HttpFailure(404, "Not Found", JsonObject("{\"error\":\"gone\"}")),
     HttpFailure(500, "Server Error", JsonString("oops")),
     TransportFailure}

----------------------------------------------------------------------------
(* client.ts: requests *)

NoParams == [pagelen |-> Undefined, sort |-> Undefined, q |-> Undefined,
             state |-> Undefined]

Request(op, method, path, ids, params, body) ==
    [body |-> body, params |-> params, op |-> op, method |-> method,
     path |-> path, ids |-> ids]

EncodeUuid_alwaysWraps(uuid) == <<"{">> \o uuid \o <<"}">>

\* pipeline_uuid.startsWith("{") ? pipeline_uuid : `{${pipeline_uuid}}`
EncodeUuid(uuid) ==
    IF StartsWith(uuid, "{") THEN uuid ELSE <<"{">> \o uuid \o <<"}">>

\* Array.prototype.join: the items with the separator between them
RECURSIVE Join(_, _)
Join(items, sep) ==
    IF Len(items) <= 1 THEN items
    ELSE <<items[1], sep>> \o Join(Tail(items), sep)

Term(field, value) == [field |-> field, value |-> value]

\* if (limit) params.pagelen = limit
PagelenParam(limit) == IF Truthy(limit) THEN limit ELSE Undefined

ListPipelineRunsParams_noPagelen(limit, status, branch, trigger) ==
    [pagelen |-> Undefined, sort |-> Str("-created_on"), q |-> Undefined,
     state |-> Undefined]

ListPipelineRunsParams(limit, status, branch, trigger) ==
    LET filters ==
            (IF Truthy(status)
             THEN <<Term("state.result.name", status.s)>> ELSE <<>>)
            \o (IF Truthy(branch)
                THEN <<Term("target.ref_name", branch.s)>> ELSE <<>>)
            \o (IF Truthy(trigger)
                THEN <<Term("trigger.type", trigger.s)>> ELSE <<>>)
    IN [pagelen |-> PagelenParam(limit),
        sort |-> Str("-created_on"),
        q |-> IF Len(filters) > 0
              THEN [t |-> "query", parts |-> Join(filters, Term(" AND ", <<>>))]
              ELSE Undefined,
        state |-> Undefined]

ListPipelineRunsReq(ws, repo, limit, status, branch, trigger) ==
    Request("listPipelineRuns", "GET", "/repositories/{}/{}/pipelines/",
            <<ws, repo>>,
            ListPipelineRunsParams(limit, status, branch, trigger), Undefined)

ListRepositoriesReq(ws, limit, nameFilter) ==
    Request("listRepositories", "GET", "/repositories/{}", <<ws>>,
            [NoParams EXCEPT
                !.pagelen = PagelenParam(limit),
                !.q = IF Truthy(nameFilter)
                      THEN [t |-> "query",
                            parts |-> <<Term("name~", nameFilter.s)>>]
                      ELSE Undefined],
            Undefined)

GetRepositoryReq(ws, repo) ==
    Request("getRepository", "GET", "/repositories/{}/{}", <<ws, repo>>,
            NoParams, Undefined)

GetPullRequestsReq(ws, repo, state, limit) ==
    Request("getPullRequests", "GET", "/repositories/{}/{}/pullrequests",
            <<ws, repo>>,
            [NoParams EXCEPT
                !.pagelen = PagelenParam(limit),
                !.state = IF Truthy(state) THEN state ELSE Undefined],
            Undefined)

GetPullRequestReq(ws, repo, id) ==
    Request("getPullRequest", "GET", "/repositories/{}/{}/pullrequests/{}",
            <<ws, repo, id>>, NoParams, Undefined)

CreatePullRequestReq(ws, repo, title, description, source, target, reviewers) ==
    Request("createPullRequest", "POST", "/repositories/{}/{}/pullrequests",
            <<ws, repo>>, NoParams,
            [title |-> title, description |-> description,
             source |-> source,
             reviewers |-> IF reviewers.t = "list" /\ Len(reviewers.items) > 0
                           THEN reviewers ELSE Undefined,
             destination |-> target])

ApprovePullRequestReq(ws, repo, id) ==
    Request("approvePullRequest", "POST",
            "/repositories/{}/{}/pullrequests/{}/approve",
            <<ws, repo, id>>, NoParams, Undefined)

MergePullRequestReq(ws, repo, id, message, strategy) ==
    Request("mergePullRequest", "POST",
            "/repositories/{}/{}/pullrequests/{}/merge",
            <<ws, repo, id>>, NoParams,
            [message |-> IF Truthy(message) THEN message ELSE Undefined,
             merge_strategy |-> IF Truthy(strategy) THEN strategy ELSE Undefined])

DeclinePullRequestReq(ws, repo, id, message) ==
    Request("declinePullRequest", "POST",
            "/repositories/{}/{}/pullrequests/{}/decline",
            <<ws, repo, id>>, NoParams,
            [message |-> IF Truthy(message) THEN message ELSE Undefined])

GetPullRequestCommentsReq(ws, repo, id) ==
    Request("getPullRequestComments", "GET",
            "/repositories/{}/{}/pullrequests/{}/comments",
            <<ws, repo, id>>, NoParams, Undefined)

GetPullRequestDiffReq(ws, repo, id) ==
    Request("getPullRequestDiff", "GET",
            "/repositories/{}/{}/pullrequests/{}/diff",
            <<ws, repo, id>>, NoParams, Undefined)

GetPipelineRunReq(ws, repo, uuid) ==
    Request("getPipelineRun", "GET", "/repositories/{}/{}/pipelines/{}",
            <<ws, repo, EncodeUuid(uuid)>>, NoParams, Undefined)

RunPipelineReq(ws, repo, target) ==
    Request("runPipeline", "POST", "/repositories/{}/{}/pipelines/",
            <<ws, repo>>, NoParams,
            [ref_type |-> target.ref_type,
             ref_name |-> target.ref_name,
             type |-> "pipeline_ref_target",
             selector |->
                IF Truthy(target.selector_type)
                THEN [type |-> target.selector_type,
                      pattern |-> IF Truthy(target.selector_pattern)
                                  THEN target.selector_pattern ELSE Undefined]
                ELSE Undefined])

StopPipelineReq(ws, repo, uuid) ==
    Request("stopPipeline", "POST",
            "/repositories/{}/{}/pipelines/{}/stopPipeline",
            <<ws, repo, EncodeUuid(uuid)>>, NoParams, Undefined)

GetPipelineStepsReq(ws, repo, uuid) ==
    Request("getPipelineSteps", "GET",
            "/repositories/{}/{}/pipelines/{}/steps/",
            <<ws, repo, EncodeUuid(uuid)>>, NoParams, Undefined)

GetPipelineStepReq(ws, repo, uuid, step) ==
    Request("getPipelineStep", "GET",
            "/repositories/{}/{}/pipelines/{}/steps/{}",
            <<ws, repo, EncodeUuid(uuid), EncodeUuid(step)>>, NoParams,
            Undefined)

GetPipelineStepLogsReq(ws, repo, uuid, step) ==
    Request("getPipelineStepLogs", "GET",
            "/repositories/{}/{}/pipelines/{}/steps/{}/log",
            <<ws, repo, EncodeUuid(uuid), EncodeUuid(step)>>, NoParams,
            Undefined)

\* bytes is a default parameter: undefined becomes 2000
GetPipelineStepLogTailReq(ws, repo, uuid, step, bytes) ==
    Request("getPipelineStepLogTail", "GET",
            "/repositories/{}/{}/pipelines/{}/steps/{}/log",
            <<ws, repo, EncodeUuid(uuid), EncodeUuid(step)>>, NoParams,
            [range |-> IF bytes.t = "undefined" THEN Num(DefaultTailBytes)
                       ELSE bytes])

GetRepositoryBranchingModelReq(ws, repo) ==
    Request("getRepositoryBranchingModel", "GET",
            "/repositories/{}/{}/branching-model", <<ws, repo>>, NoParams,
            Undefined)

GetRepositoryBranchingModelSettingsReq(ws, repo) ==
    Request("getRepositoryBranchingModelSettings", "GET",
            "/repositories/{}/{}/branching-model/settings", <<ws, repo>>,
            NoParams, Undefined)

----------------------------------------------------------------------------
(* client.ts: configuration and construction *)

\* A base URL is a sequence of atoms: a scheme, a host, then "/" and path
\* segments.  new URL() accepts it when it starts with a scheme and a host.
Schemes == {"https://", "http://"}

ParseUrl(u) ==
    IF Len(u) >= 2 /\ u[1] \in Schemes /\ (Len(u) = 2 \/ u[3] = "/")
    THEN [ok |-> TRUE,
          protocol |-> u[1],
          hostname |-> u[2],
          pathname |-> IF Len(u) = 2 THEN <<"/">> ELSE Drop(u, 2)]
    ELSE [ok |-> FALSE, protocol |-> "", hostname |-> "", pathname |-> <<>>]

StripTrailingSlashes_once(u) ==
    IF u # <<>> /\ u[Len(u)] = "/" THEN SubSeq(u, 1, Len(u) - 1) ELSE u

\* baseUrl.replace(/\/+$/, "")
RECURSIVE StripTrailingSlashes(_)
StripTrailingSlashes(u) ==
    IF u # <<>> /\ u[Len(u)] = "/"
    THEN StripTrailingSlashes(SubSeq(u, 1, Len(u) - 1))
    ELSE u

\* pathname.split("/").filter((p) => p.length > 0)
PathParts(pathname) == SelectSeq(pathname, LAMBDA a : a # "/")

\* pathname.includes("/2.0")
IncludesApiVersion(pathname) ==
    \E i \in 1..(Len(pathname) - 1) :
        pathname[i] = "/" /\ pathname[i + 1] \in {"2.0", "2.00"}

ApiBaseUrl == <<"https://", "api.bitbucket.org", "/", "2.0">>

normalizeBitbucketConfig(rawConfig) ==
    LET parsed == IF rawConfig.baseUrl.t = "string"
                  THEN ParseUrl(rawConfig.baseUrl.s) ELSE ParseUrl(<<>>)
        onSite == parsed.hostname = "bitbucket.org" /\ Len(parsed.pathname) > 1
        parts == PathParts(parsed.pathname)
        workspace ==
            IF onSite /\ Len(parts) > 0 /\ ~Truthy(rawConfig.defaultWorkspace)
            THEN Str(<<parts[1]>>) ELSE rawConfig.defaultWorkspace
        url1 == IF onSite THEN ApiBaseUrl ELSE rawConfig.baseUrl.s
        url2 == IF parsed.hostname = "api.bitbucket.org"
                   /\ ~IncludesApiVersion(parsed.pathname)
                THEN <<parsed.protocol, parsed.hostname, "/", "2.0">>
                ELSE url1
    IN IF parsed.ok
       THEN [rawConfig EXCEPT !.defaultWorkspace = workspace,
                              !.baseUrl = Str(StripTrailingSlashes(url2))]
       ELSE rawConfig

ConfigErrors_baseUrlOnly(config) ==
    LET c == normalizeBitbucketConfig(config)
    IN IF ~Truthy(c.baseUrl)
       THEN <<"baseUrl is required in BitbucketConfig">>
       ELSE <<>>

\* the constructor's checks on the normalized configuration
ConfigErrors(config) ==
    LET c == normalizeBitbucketConfig(config)
    IN IF ~Truthy(c.baseUrl)
       THEN <<"baseUrl is required in BitbucketConfig">>
       ELSE IF ~Truthy(c.token) /\ ~(Truthy(c.username) /\ Truthy(c.password))
       THEN <<"Either token or username/password is required in BitbucketConfig">>
       ELSE <<>>

----------------------------------------------------------------------------
(* client.ts: error wrapping *)

\* Number to string, as a template literal renders it
RECURSIVE DecimalString(_)
DecimalString(n) ==
    LET digit == <<"0", "1", "2", "3", "4", "5", "6", "7", "8", "9">>
    IN IF n < 0 THEN "-" \o DecimalString(-n)
       ELSE IF n < 10 THEN digit[n + 1]
       ELSE DecimalString(n \div 10) \o digit[(n % 10) + 1]

\* JSON.stringify of a response body; of undefined it is undefined, which a
\* template literal renders as "undefined"
JsonStringify(v) ==
    CASE v.t = "undefined" -> "undefined"
      [] v.t = "jsonstring" -> "\"" \o v.text \o "\""
      [] v.t = "jsonobject" -> v.text

\* an Error thrown by the client's own code, not by the HTTP library
PlainError(message) ==
    [status |-> 0, statusText |-> "", data |-> Undefined,
     axios |-> FALSE, message |-> message, hasResponse |-> FALSE]

\* `${error}` of an Error object
ErrorToString(error) == "Error: " \o error.message

ApiErrorMessage(error, operation) ==
    [status |-> IF error.hasResponse THEN DecimalString(error.status)
                ELSE "undefined",
     statusText |-> IF error.hasResponse THEN error.statusText
                    ELSE "undefined",
     data |-> IF error.hasResponse THEN JsonStringify(error.data)
              ELSE "undefined",
     operation |-> operation,
     kind |-> "api",
     prefix |-> "Bitbucket API error in "]

UnexpectedErrorMessage_anonymous(error, operation) ==
    [operation |-> "",
     kind |-> "unexpected",
     prefix |-> "Unexpected error in ",
     cause |-> ErrorToString(error)]

UnexpectedErrorMessage(error, operation) ==
    [operation |-> operation,
     kind |-> "unexpected",
     prefix |-> "Unexpected error in ",
     cause |-> ErrorToString(error)]

handleAxiosError_neverAxios(error, operation) ==
    UnexpectedErrorMessage(error, operation)

\* the message of the one Error handleAxiosError throws
handleAxiosError(error, operation) ==
    IF error.axios
    THEN ApiErrorMessage(error, operation)
    ELSE UnexpectedErrorMessage(error, operation)

\* the operation name each operation's catch block hands to handleAxiosError
CatchLabel(op) ==
    CASE op = "listRepositories" -> "listRepositories"
      [] op = "getRepository" -> "getRepository"
      [] op = "getPullRequests" -> "getPullRequests"
      [] op = "getPullRequest" -> "getPullRequest"
      [] op = "createPullRequest" -> "createPullRequest"
      [] op = "approvePullRequest" -> "approvePullRequest"
      [] op = "mergePullRequest" -> "mergePullRequest"
      [] op = "declinePullRequest" -> "declinePullRequest"
      [] op = "getPullRequestComments" -> "getPullRequestComments"
      [] op = "getPullRequestDiff" -> "getPullRequestDiff"
      [] op = "listPipelineRuns" -> "listPipelineRuns"
      [] op = "getPipelineRun" -> "getPipelineRun"
      [] op = "runPipeline" -> "runPipeline"
      [] op = "stopPipeline" -> "stopPipeline"
      [] op = "getPipelineSteps" -> "getPipelineSteps"
      [] op = "getPipelineStep" -> "getPipelineStep"
      [] op = "getPipelineStepLogs" -> "getPipelineStepLogs"
      [] op = "getPipelineStepLogTail" -> "getPipelineStepLogTail"
      [] op = "getRepositoryBranchingModel" -> "getRepositoryBranchingModel"
      [] op = "getRepositoryBranchingModelSettings" ->
            "getRepositoryBranchingModelSettings"

----------------------------------------------------------------------------
(* index-cli.ts: resolvePipelineIdentifier *)

LooksLikeUuid_braceOnly(identifier) == Includes(identifier, "{")

\* identifier.includes('{') || identifier.includes('-')
LooksLikeUuid(identifier) ==
    Includes(identifier, "{") \/ Includes(identifier, "-")

\* the resolver goes to the network: not UUID-like, and parseInt gives a number
NeedsLookup(identifier) ==
    ~LooksLikeUuid(identifier) /\ ParseInt(identifier).t = "number"

LookupRequest_noLimit(workspace, repo) ==
    ListPipelineRunsReq(workspace, repo, Undefined, Undefined, Undefined,
                        Undefined)

\* the request of client.listPipelineRuns(workspace, repo, 100)
LookupRequest(workspace, repo) ==
    ListPipelineRunsReq(workspace, repo, Num(SearchWindow),
                        Undefined, Undefined, Undefined)

FindRun_lastMatch(body, buildNumber) ==
    IF body.hasValues
          /\ \E i \in DOMAIN body.values :
                body.values[i].build_number = buildNumber
    THEN CHOOSE i \in DOMAIN body.values :
            /\ body.values[i].build_number = buildNumber
            /\ \A j \in (i + 1)..Len(body.values) :
                    body.values[j].build_number # buildNumber
    ELSE 0

FindRun_byPosition(body, buildNumber) ==
    IF body.hasValues /\ buildNumber \in DOMAIN body.values
    THEN buildNumber ELSE 0

\* pipelines.values?.find(p => p.build_number === buildNumber): the index of
\* the first match, 0 when there is none or no list
FindRun(body, buildNumber) ==
    IF body.hasValues
          /\ \E i \in DOMAIN body.values :
                body.values[i].build_number = buildNumber
    THEN CHOOSE i \in DOMAIN body.values :
            /\ body.values[i].build_number = buildNumber
            /\ \A j \in 1..(i - 1) : body.values[j].build_number # buildNumber
    ELSE 0

NotFoundMessage_otherWindow(buildNumber) ==
    [text |-> " not found in recent ",
     kind |-> "notfound",
     prefix |-> "Pipeline build #",
     buildNumber |-> buildNumber,
     window |-> 10,
     suffix |-> " pipelines. Try using the UUID directly or increase search range."]

NotFoundMessage(buildNumber) ==
    [text |-> " not found in recent ",
     kind |-> "notfound",
     prefix |-> "Pipeline build #",
     buildNumber |-> buildNumber,
     window |-> 100,
     suffix |-> " pipelines. Try using the UUID directly or increase search range."]

----------------------------------------------------------------------------
(* index-cli.ts: the inputs of one invocation *)

NoCommand == "<no arguments>"

ResolverCommands ==
    {"get-pipeline", "get-pipeline-steps", "get-step-logs", "tail-step-log",
     "stop-pipeline"}

DirectCommands ==
    {"list-pipelines", "run-pipeline", "list-repos", "get-repo", "list-prs",
     "get-pr", "approve-pr", "merge-pr", "decline-pr", "get-branching-model",
     "get-pr-diff", "get-pr-comments"}

Commands == ResolverCommands \cup DirectCommands

W == <<"w">>
R == <<"r">>
StepToken == <<"s">>
NumberTokens == {<<"2">>, <<"0">>, <<"a">>}
WordTokens == {<<"m">>}

\* the identifier tokens: every string over Alphabet up to MaxTokenLen
IdTokens == SeqsUpTo(Alphabet, MaxTokenLen)

\* a few of them, for the commands that resolve the same way
IdSamples ==
    {<<>>, <<"1">>, <<"1", "2">>, <<"1", "a">>, <<"a">>, <<"-">>, <<"{">>}

Prefixes(s) == {SubSeq(s, 1, n) : n \in 0..Len(s)}

\* the argument lists tried for each command
ArgLists(c) ==
    IF c = NoCommand THEN {<<>>}
    ELSE IF c = "get-pipeline"
    THEN Prefixes(<<W, R>>) \cup {<<W, R, id>> : id \in IdTokens}
    ELSE IF c \in {"get-pipeline-steps", "stop-pipeline"}
    THEN Prefixes(<<W, R>>) \cup {<<W, R, id>> : id \in IdSamples}
    ELSE IF c = "get-step-logs"
    THEN Prefixes(<<W, R, <<"1">>>>)
         \cup {<<W, R, id, StepToken>> : id \in IdSamples}
    ELSE IF c = "tail-step-log"
    THEN Prefixes(<<W, R, <<"1">>>>)
         \cup {<<W, R, id, StepToken>> : id \in IdSamples}
         \cup {<<W, R, <<"1">>, StepToken, b>> : b \in NumberTokens}
    ELSE IF c \in {"list-pipelines", "list-repos", "list-prs"}
    THEN UNION {Prefixes(<<W, R, n, m>>) \cup Prefixes(<<W, R, m, n>>)
                    \cup Prefixes(<<W, n>>) \cup {<<<<>>, R>>, <<<<>>>>}
                : n \in NumberTokens, m \in WordTokens}
    ELSE UNION {Prefixes(<<W, R, n, m, m>>) \cup {<<<<>>, R, n>>}
                : n \in NumberTokens, m \in WordTokens}

SiteUrl == <<"https://", "bitbucket.org", "/", "team", "/">>

Config(baseUrl, token, username, password, defaultWorkspace) ==
    [baseUrl |-> baseUrl, defaultWorkspace |-> defaultWorkspace,
     token |-> token, username |-> username, password |-> password]

Maybe(s) == {Undefined, Str(s)}

\* what loadConfig() can return: baseUrl always has a value (it defaults to
\* the API URL), everything else may be missing
CliConfigs ==
    {Config(Str(ApiBaseUrl), Str(<<"t">>), Undefined, Undefined, d) :
        d \in Maybe(<<"d">>)}
    \cup {Config(Str(ApiBaseUrl), Undefined, Str(<<"u">>), p, Str(<<"d">>)) :
            p \in Maybe(<<"p">>)}
    \cup {Config(Str(ApiBaseUrl), Undefined, Undefined, Undefined, Undefined),
          Config(Str(SiteUrl), Str(<<"t">>), Undefined, Undefined, Undefined),
          Config(Str(<<"garbage">>), Str(<<"t">>), Undefined, Undefined,
                 Undefined)}

Returned(config) == [message |-> "", config |-> config, throws |-> FALSE]
Threw(message) ==
    [message |-> message,
     config |-> Config(Undefined, Undefined, Undefined, Undefined, Undefined),
     throws |-> TRUE]

LoadOutcomes ==
    {Returned(c) : c \in CliConfigs} \cup {Threw("Invalid credentials")}

----------------------------------------------------------------------------
(* index-cli.ts: main *)

\* const [a, b, ...] = args.slice(1): a missing position is undefined
Arg(i) == IF i <= Len(args) THEN Str(args[i]) ELSE Undefined

\* limit ? parseInt(limit) : undefined
OptionalInt(v) == IF Truthy(v) THEN ParseInt(v.s) ELSE Undefined

PlainLine(text) == [message |-> [kind |-> "none"], label |-> text]
ErrorLine(message) == [message |-> message, label |-> "Error:"]

UsageMessage_asSetup(text) == [text |-> text, kind |-> "setup"]
UsageMessage(text) == [text |-> text, kind |-> "usage"]
SetupMessage(text) == [text |-> text, kind |-> "setup"]

\* the lines main prints when there is no argument at all
UsageBanner ==
    <<PlainLine("Usage: bitbucket-cli <command> [arguments...]"),
      PlainLine("\nAvailable commands:"),
      PlainLine("  list-pipelines <workspace> <repo> [limit] [status]"),
      PlainLine("  get-pipeline <workspace> <repo> <build_number_or_uuid>"),
      PlainLine("  get-pipeline-steps <workspace> <repo> <build_number_or_uuid>"),
      PlainLine("  get-step-logs <workspace> <repo> <build_number_or_uuid> <step_uuid>"),
      PlainLine("  tail-step-log <workspace> <repo> <build_number_or_uuid> <step_uuid> [bytes]"),
      PlainLine("  run-pipeline <workspace> <repo> <branch> [custom_pipeline_name]"),
      PlainLine("  stop-pipeline <workspace> <repo> <build_number_or_uuid>"),
      PlainLine("  list-repos [workspace] [limit]"),
      PlainLine("  get-repo <workspace> <repo>"),
      PlainLine("  list-prs <workspace> <repo> [state] [limit]"),
      PlainLine("  get-pr <workspace> <repo> <pr_id>"),
      PlainLine("  approve-pr <workspace> <repo> <pr_id>"),
      PlainLine("  merge-pr <workspace> <repo> <pr_id> [message] [strategy]"),
      PlainLine("  decline-pr <workspace> <repo> <pr_id> [message]"),
      PlainLine("  get-branching-model <workspace> <repo>"),
      PlainLine("\nNote: Pipeline commands accept either build number (60) or UUID ({abc...})")>>

\* loadConfig() then new BitbucketClient(config): the message of what is
\* thrown, if anything
SetupErrors ==
    IF loaded.throws THEN <<loaded.message>> ELSE ConfigErrors(loaded.config)

\* this.config of the constructed client
ClientConfig == normalizeBitbucketConfig(loaded.config)

ExitWith_statusZero(lines) ==
    /\ stderr' = stderr \o lines
    /\ pc' = "exited"
    /\ exitCode' = 0

\* process.exit(1) after console.error lines
ExitWith(lines) ==
    /\ stderr' = stderr \o lines
    /\ pc' = "exited"
    /\ exitCode' = 1

Catch_retries(message) ==
    /\ stderr' = Append(stderr, ErrorLine(message))
    /\ pc' = "start"
    /\ exitCode' = exitCode

\* main's catch: console.error("Error:", error.message); process.exit(1)
Catch(message) == ExitWith(<<ErrorLine(message)>>)

\* a client operation sends its request and main waits for the answer
Send(request, waiting) ==
    /\ calls' = Append(calls, request)
    /\ pc' = waiting

\* the switch is reached with this command
Case(c) ==
    /\ pc = "start"
    /\ command = c
    /\ SetupErrors = <<>>

\* the first n positional arguments are all given and non-empty
Given(n) == \A i \in 1..n : Truthy(Arg(i))

\* a case that checks its arguments and calls one client operation
Direct(c, required, usage, request) ==
    /\ Case(c)
    /\ IF ~Given(required)
       THEN Catch(UsageMessage(usage)) /\ UNCHANGED calls
       ELSE Send(request, "target") /\ UNCHANGED <<stderr, exitCode>>
    /\ UNCHANGED <<command, args, loaded, history, replies, resolved, stdout,
                   outcome>>

\* the client operation a resolver command calls once it has the uuid
TargetRequest(c, uuid) ==
    LET ws == args[1]
        repo == args[2]
    IN CASE c = "get-pipeline" -> GetPipelineRunReq(ws, repo, uuid)
         [] c = "get-pipeline-steps" -> GetPipelineStepsReq(ws, repo, uuid)
         [] c = "get-step-logs" ->
                GetPipelineStepLogsReq(ws, repo, uuid, args[4])
         [] c = "tail-step-log" ->
                GetPipelineStepLogTailReq(ws, repo, uuid, args[4],
                    IF Truthy(Arg(5)) THEN ParseInt(args[5])
                    ELSE Num(DefaultTailBytes))
         [] c = "stop-pipeline" -> StopPipelineReq(ws, repo, uuid)

DetectedLine(buildNumber) ==
    [message |-> [n |-> buildNumber, kind |-> "number"],
     label |-> "Detected build number"]
FoundLine(uuid) ==
    [message |-> [uuid |-> uuid, kind |-> "uuid"], label |-> "Found UUID:"]

\* a case that checks its arguments and calls resolvePipelineIdentifier, which
\* either returns at once (then the client operation is called) or looks up
Resolving(c, required, usage) ==
    /\ Case(c)
    /\ IF ~Given(required)
       THEN Catch(UsageMessage(usage)) /\ UNCHANGED <<calls, resolved>>
       ELSE IF NeedsLookup(args[3])
       THEN /\ stderr' = Append(stderr, DetectedLine(ParseInt(args[3]).n))
            /\ Send(LookupRequest(args[1], args[2]), "lookup")
            /\ UNCHANGED <<resolved, exitCode>>
       ELSE /\ resolved' = <<args[3]>>
            /\ Send(TargetRequest(c, args[3]), "target")
            /\ UNCHANGED <<stderr, exitCode>>
    /\ UNCHANGED <<command, args, loaded, history, replies, stdout, outcome>>

Init ==
    /\ command \in Commands \cup {NoCommand, "bogus"}
    /\ args \in ArgLists(command)
    /\ loaded \in LoadOutcomes
    /\ history = <<>>
    /\ pc = "start"
    /\ calls = <<>>
    /\ replies = <<>>
    /\ resolved = <<>>
    /\ stdout = <<>>
    /\ stderr = <<>>
    /\ exitCode = 0
    /\ outcome = [state |-> "none"]

\* if (args.length === 0): the usage banner, process.exit(1)
NoArguments ==
    /\ pc = "start"
    /\ command = NoCommand
    /\ ExitWith(UsageBanner)
    /\ UNCHANGED <<command, args, loaded, history, calls, replies, resolved,
                   stdout, outcome>>

\* loadConfig() or the BitbucketClient constructor throws
SetupFails ==
    /\ pc = "start"
    /\ command # NoCommand
    /\ SetupErrors # <<>>
    /\ Catch(SetupMessage(SetupErrors[1]))
    /\ UNCHANGED <<command, args, loaded, history, calls, replies, resolved,
                   stdout, outcome>>

\* default: console.error(`Unknown command: ${command}`); process.exit(1)
UnknownCommand ==
    /\ pc = "start"
    /\ command \notin Commands \cup {NoCommand}
    /\ SetupErrors = <<>>
    /\ ExitWith(<<PlainLine("Unknown command: " \o command)>>)
    /\ UNCHANGED <<command, args, loaded, history, calls, replies, resolved,
                   stdout, outcome>>

ListPipelines ==
    Direct("list-pipelines", 2,
           "Usage: list-pipelines <workspace> <repo> [limit] [status]",
           ListPipelineRunsReq(args[1], args[2], OptionalInt(Arg(3)), Arg(4),
                               Undefined, Undefined))

GetPipeline ==
    Resolving("get-pipeline", 3,
              "Usage: get-pipeline <workspace> <repo> <pipeline_uuid_or_build_number>")

GetPipelineSteps ==
    Resolving("get-pipeline-steps", 3,
              "Usage: get-pipeline-steps <workspace> <repo> <pipeline_uuid_or_build_number>")

GetStepLogs ==
    Resolving("get-step-logs", 4,
              "Usage: get-step-logs <workspace> <repo> <pipeline_uuid_or_build_number> <step_uuid>")

TailStepLog ==
    Resolving("tail-step-log", 4,
              "Usage: tail-step-log <workspace> <repo> <pipeline_uuid_or_build_number> <step_uuid> [bytes]")

RunPipeline ==
    Direct("run-pipeline", 3,
           "Usage: run-pipeline <workspace> <repo> <branch> [custom_pipeline_name]",
           RunPipelineReq(args[1], args[2],
               [ref_type |-> "branch",
                ref_name |-> args[3],
                selector_type |-> IF Truthy(Arg(4)) THEN Str(<<"custom">>)
                                  ELSE Undefined,
                selector_pattern |-> IF Truthy(Arg(4)) THEN Arg(4)
                                     ELSE Undefined]))

StopPipeline ==
    Resolving("stop-pipeline", 3,
              "Usage: stop-pipeline <workspace> <repo> <pipeline_uuid_or_build_number>")

\* client.listRepositories: workspace || this.config.defaultWorkspace
EffectiveWorkspace(config, workspace) ==
    OrElse(workspace, config.defaultWorkspace)

\* list-repos checks no argument; listRepositories throws, before any request,
\* when it has no workspace, and its own catch wraps that error
ListRepos ==
    /\ Case("list-repos")
    /\ LET ws == EffectiveWorkspace(ClientConfig, Arg(1))
       IN IF ~Truthy(ws)
          THEN /\ Catch(handleAxiosError(
                      PlainError("workspace parameter or defaultWorkspace config is required"),
                      "listRepositories"))
               /\ UNCHANGED calls
          ELSE /\ Send(ListRepositoriesReq(ws.s, OptionalInt(Arg(2)), Undefined),
                       "target")
               /\ UNCHANGED <<stderr, exitCode>>
    /\ UNCHANGED <<command, args, loaded, history, replies, resolved, stdout,
                   outcome>>

GetRepo ==
    Direct("get-repo", 2, "Usage: get-repo <workspace> <repo>",
           GetRepositoryReq(args[1], args[2]))

ListPrs ==
    Direct("list-prs", 2, "Usage: list-prs <workspace> <repo> [state] [limit]",
           GetPullRequestsReq(args[1], args[2], Arg(3), OptionalInt(Arg(4))))

GetPr ==
    Direct("get-pr", 3, "Usage: get-pr <workspace> <repo> <pr_id>",
           GetPullRequestReq(args[1], args[2], args[3]))

ApprovePr ==
    Direct("approve-pr", 3, "Usage: approve-pr <workspace> <repo> <pr_id>",
           ApprovePullRequestReq(args[1], args[2], args[3]))

MergePr ==
    Direct("merge-pr", 3,
           "Usage: merge-pr <workspace> <repo> <pr_id> [message] [strategy]",
           MergePullRequestReq(args[1], args[2], args[3], Arg(4), Arg(5)))

DeclinePr ==
    Direct("decline-pr", 3,
           "Usage: decline-pr <workspace> <repo> <pr_id> [message]",
           DeclinePullRequestReq(args[1], args[2], args[3], Arg(4)))

GetBranchingModel ==
    Direct("get-branching-model", 2,
           "Usage: get-branching-model <workspace> <repo>",
           GetRepositoryBranchingModelReq(args[1], args[2]))

GetPrDiff ==
    Direct("get-pr-diff", 3, "Usage: get-pr-diff <workspace> <repo> <pr_id>",
           GetPullRequestDiffReq(args[1], args[2], args[3]))

GetPrComments ==
    Direct("get-pr-comments", 3,
           "Usage: get-pr-comments <workspace> <repo> <pr_id>",
           GetPullRequestCommentsReq(args[1], args[2], args[3]))

\* the successful answers to a request: a listing is answered from the
\* history the service holds at that moment, anything else does not read it
Answers(req) ==
    IF req.op = "listPipelineRuns"
    THEN UNION {{[history |-> <<h>>, body |-> b] : b \in Bodies(h, req)}
                    : h \in Histories}
    ELSE {[history |-> history, body |-> b] : b \in Bodies(<<>>, req)}

Ok(body) == [body |-> body, ok |-> TRUE, failure |-> TransportFailure]
Failed(failure) == [body |-> BareBody(""), ok |-> FALSE, failure |-> failure]

\* the lookup is answered: the resolver scans the page, and main goes on to
\* the client operation with the uuid found, or the resolver throws
LookupReturns ==
    /\ pc = "lookup"
    /\ \E answer \in Answers(calls[Len(calls)]) :
        LET body == answer.body
            buildNumber == ParseInt(args[3]).n
            found == FindRun(body, buildNumber)
        IN /\ history' = answer.history
           /\ replies' = Append(replies, Ok(body))
           /\ IF found = 0
              THEN /\ Catch(NotFoundMessage(buildNumber))
                   /\ UNCHANGED <<calls, resolved>>
              ELSE /\ stderr' = Append(stderr, FoundLine(body.values[found].uuid))
                   /\ resolved' = <<body.values[found].uuid>>
                   /\ Send(TargetRequest(command, body.values[found].uuid),
                           "target")
                   /\ UNCHANGED exitCode
    /\ UNCHANGED <<command, args, loaded, stdout, outcome>>

LookupFails_fallsBack ==
    /\ pc = "lookup"
    /\ \E failure \in Failures :
        /\ replies' = Append(replies, Failed(failure))
        /\ resolved' = <<args[3]>>
        /\ Send(TargetRequest(command, args[3]), "target")
    /\ UNCHANGED <<command, args, loaded, history, stdout, stderr, exitCode,
                   outcome>>

\* the lookup fails: listPipelineRuns wraps the error, the resolver and main
\* let it through to main's catch
LookupFails ==
    /\ pc = "lookup"
    /\ \E failure \in Failures :
        /\ replies' = Append(replies, Failed(failure))
        /\ Catch(handleAxiosError(failure, CatchLabel(calls[Len(calls)].op)))
    /\ UNCHANGED <<command, args, loaded, history, calls, resolved, stdout,
                   outcome>>

\* logs and diffs are printed as they are, everything else as JSON
TextCommands == {"get-step-logs", "tail-step-log", "get-pr-diff"}

Printed_alwaysJson(c, body) == [body |-> body, format |-> "json"]

\* console.log(JSON.stringify(result, null, 2)) or console.log(result)
Printed(c, body) ==
    [body |-> body, format |-> IF c \in TextCommands THEN "text" ELSE "json"]

\* the client operation returns: main prints the result and ends
TargetReturns ==
    /\ pc = "target"
    /\ \E answer \in Answers(calls[Len(calls)]) :
        /\ history' = answer.history
        /\ replies' = Append(replies, Ok(answer.body))
        /\ stdout' = Append(stdout, Printed(command, answer.body))
    /\ pc' = "exited"
    /\ exitCode' = 0
    /\ UNCHANGED <<command, args, loaded, calls, resolved, stderr, outcome>>

\* the client operation fails: its catch wraps the error, main's catch prints it
TargetFails ==
    /\ pc = "target"
    /\ \E failure \in Failures :
        /\ replies' = Append(replies, Failed(failure))
        /\ Catch(handleAxiosError(failure, CatchLabel(calls[Len(calls)].op)))
    /\ UNCHANGED <<command, args, loaded, history, calls, resolved, stdout,
                   outcome>>

Next ==
    \/ NoArguments
    \/ SetupFails
    \/ UnknownCommand
    \/ ListPipelines
    \/ GetPipeline
    \/ GetPipelineSteps
    \/ GetStepLogs
    \/ TailStepLog
    \/ RunPipeline
    \/ StopPipeline
    \/ ListRepos
    \/ GetRepo
    \/ ListPrs
    \/ GetPr
    \/ ApprovePr
    \/ MergePr
    \/ DeclinePr
    \/ GetBranchingModel
    \/ GetPrDiff
    \/ GetPrComments
    \/ LookupReturns
    \/ LookupFails
    \/ TargetReturns
    \/ TargetFails

Spec == Init /\ [][Next]_vars

----------------------------------------------------------------------------
(* Properties of one invocation (Spec) *)

RequiredArgs(c) == IF c \in {"get-step-logs", "tail-step-log"} THEN 4 ELSE 3

\* main has called resolvePipelineIdentifier(client, args[1], args[2], args[3])
ResolverCalled ==
    /\ pc # "start"
    /\ command \in ResolverCommands
    /\ SetupErrors = <<>>
    /\ Given(RequiredArgs(command))

Token == args[3]

LookupCalls == {i \in DOMAIN calls : calls[i].op = "listPipelineRuns"}

\* the lookup has been answered with a page
Fetched == Len(replies) >= 1 /\ replies[1].ok

\* the positions of the fetched window that hold build number n
Matches(n) ==
    IF replies[1].body.hasValues
    THEN {i \in DOMAIN replies[1].body.values :
            replies[1].body.values[i].build_number = n}
    ELSE {}

LastError == stderr[Len(stderr)]

\* C1: a token containing "{" or "-" is returned as it is, and the resolver
\* issues no listPipelineRuns request, whatever the workspace and repository
C1_CanonicalUnchanged ==
    (ResolverCalled /\ (Includes(Token, "{") \/ Includes(Token, "-")))
    => /\ resolved = <<Token>>
       /\ LookupCalls = {}
       /\ replies = <<>> => Len(calls) = 1

C1_Witness ==
    /\ ResolverCalled
    /\ Includes(Token, "-")
    /\ ~Includes(Token, "{")
    /\ resolved = <<Token>>
    /\ pc = "exited"
    /\ exitCode = 0

\* C2: a token that parses as an integer n (and has no "{" or "-") makes the
\* resolver issue exactly one lookup; when the fetched window holds a run with
\* build number n the resolver returns that run's uuid, otherwise it fails and
\* returns nothing
C2_NumericLooksUpOnce ==
    (ResolverCalled /\ ~Includes(Token, "{") /\ ~Includes(Token, "-")
        /\ ParseInt(Token).t = "number")
    => /\ Cardinality(LookupCalls) = 1
       /\ calls[1].op = "listPipelineRuns"
       /\ pc = "lookup" => (resolved = <<>> /\ replies = <<>>)
       /\ pc # "lookup" =>
            IF Fetched /\ Matches(ParseInt(Token).n) # {}
            THEN \E i \in Matches(ParseInt(Token).n) :
                    resolved = <<replies[1].body.values[i].uuid>>
            ELSE /\ resolved = <<>>
                 /\ Len(calls) = 1
                 /\ pc = "exited"
                 /\ exitCode = 1

C2_Witness ==
    /\ ResolverCalled
    /\ Token = <<"1", "2">>
    /\ Fetched
    /\ replies[1].body.values = <<Run(1, <<"{", "b", "}">>), Run(12, <<"{", "a", "}">>)>>
    /\ resolved = <<<<"{", "a", "}">>>>
    /\ Len(calls) = 2

\* C3 as claimed: a token with no "{" and no "-" that is not a decimal integer
\* is returned as it is, without a lookup
C3_NonNumericUnchanged ==
    (ResolverCalled /\ ~Includes(Token, "{") /\ ~Includes(Token, "-")
        /\ ~IsDecimalInteger(Token))
    => /\ resolved = <<Token>>
       /\ LookupCalls = {}

\* C4: when the fetched window has no run with the token's build number (an
\* empty or absent list included) the resolver returns nothing and fails with
\* the not-found error, whose message names the build number and the window
\* size 100 and suggests the UUID
C4_NotFound ==
    (ResolverCalled /\ NeedsLookup(Token) /\ Fetched
        /\ Matches(ParseInt(Token).n) = {})
    => /\ resolved = <<>>
       /\ pc = "exited"
       /\ exitCode = 1
       /\ Len(calls) = 1
       /\ stdout = <<>>
       /\ LastError.label = "Error:"
       /\ LastError.message.kind = "notfound"
       /\ LastError.message.buildNumber = ParseInt(Token).n
       /\ LastError.message.window = 100
       /\ LastError.message.window = calls[1].params.pagelen.n
       /\ LastError.message.suffix =
            " pipelines. Try using the UUID directly or increase search range."

C4_Witness ==
    /\ ResolverCalled
    /\ Token = <<"1">>
    /\ Fetched
    /\ ~replies[1].body.hasValues
    /\ pc = "exited"
    /\ LastError.message.kind = "notfound"

C4_WitnessNoMatch ==
    /\ ResolverCalled
    /\ Token = <<"1">>
    /\ Fetched
    /\ replies[1].body.values = <<Run(12, <<"{", "a", "}">>)>>
    /\ LastError.message.kind = "notfound"

\* the newest k runs of the history the service held
Newest(k) == Take(AllRuns(history[1]), k)

\* C5: the lookup asks for the repository's pipelines with page length 100,
\* newest first, with no filter; a build number is resolved only to a run
\* among the 100 newest, and a build that is not among them is not resolved
C5_BoundedWindow ==
    /\ \A i \in LookupCalls :
        (command \in ResolverCommands) =>
            /\ i = 1
            /\ calls[i].method = "GET"
            /\ calls[i].path = "/repositories/{}/{}/pipelines/"
            /\ calls[i].ids = <<args[1], args[2]>>
            /\ calls[i].params.pagelen = Num(100)
            /\ calls[i].params.sort = Str("-created_on")
            /\ calls[i].params.q = Undefined
            /\ calls[i].params.state = Undefined
    /\ (ResolverCalled /\ NeedsLookup(Token) /\ Fetched) =>
        LET newest == Range(Newest(100))
            n == ParseInt(Token).n
        IN /\ resolved # <<>> =>
                \E run \in newest :
                    run.build_number = n /\ run.uuid = resolved[1]
           /\ (\A run \in newest : run.build_number # n)
                => resolved = <<>> /\ pc = "exited" /\ exitCode = 1

\* the build asked for exists, but 100 newer runs have pushed it out
C5_Witness ==
    /\ ResolverCalled
    /\ Token = <<"1", "2">>
    /\ Fetched
    /\ history[1].newer = 100
    /\ \E j \in DOMAIN history[1].older : history[1].older[j].build_number = 12
    /\ Len(replies[1].body.values) = 100
    /\ resolved = <<>>
    /\ pc = "exited"

\* the client operation each command ends with
OperationOf(c) ==
    CASE c = "list-pipelines" -> "listPipelineRuns"
      [] c = "get-pipeline" -> "getPipelineRun"
      [] c = "get-pipeline-steps" -> "getPipelineSteps"
      [] c = "get-step-logs" -> "getPipelineStepLogs"
      [] c = "tail-step-log" -> "getPipelineStepLogTail"
      [] c = "run-pipeline" -> "runPipeline"
      [] c = "stop-pipeline" -> "stopPipeline"
      [] c = "list-repos" -> "listRepositories"
      [] c = "get-repo" -> "getRepository"
      [] c = "list-prs" -> "getPullRequests"
      [] c = "get-pr" -> "getPullRequest"
      [] c = "approve-pr" -> "approvePullRequest"
      [] c = "merge-pr" -> "mergePullRequest"
      [] c = "decline-pr" -> "declinePullRequest"
      [] c = "get-branching-model" -> "getRepositoryBranchingModel"
      [] c = "get-pr-diff" -> "getPullRequestDiff"
      [] c = "get-pr-comments" -> "getPullRequestComments"
      [] OTHER -> "none"

\* the last request is the command's own operation, not the resolver's lookup
TargetIssued ==
    /\ Len(calls) >= 1
    /\ IF command \in ResolverCommands
       THEN resolved # <<>>
       ELSE Len(calls) = 1

\* C6: an invocation issues at most two requests, one after the other's answer:
\* two only in the commands that take a build number or uuid, the first being
\* the lookup and the second the command's operation; after the last answer
\* the process has exited, and an exited process does nothing more
C6_AtMostTwoSequentialCalls ==
    /\ Len(calls) <= 2
    /\ Len(replies) <= Len(calls)
    /\ Len(calls) <= Len(replies) + 1
    /\ Len(calls) = 2 =>
        /\ command \in {"get-pipeline", "get-pipeline-steps", "get-step-logs",
                        "tail-step-log", "stop-pipeline"}
        /\ calls[1].op = "listPipelineRuns"
        /\ replies[1].ok
    /\ TargetIssued => calls[Len(calls)].op = OperationOf(command)
    /\ (TargetIssued /\ Len(replies) = Len(calls)) => pc = "exited"
    /\ (pc = "exited") <=> ~ENABLED Next

C6_Witness ==
    /\ Len(calls) = 2
    /\ Len(replies) = 2
    /\ command = "tail-step-log"
    /\ pc = "exited"
    /\ exitCode = 0

\* the resolution step (if the command has one) and the operation both succeeded
Succeeded ==
    /\ TargetIssued
    /\ Len(replies) = Len(calls)
    /\ \A i \in DOMAIN replies : replies[i].ok

\* C9: the result is written to standard output, once, as JSON or as raw text,
\* exactly when resolution and operation both succeeded; on any failure
\* standard output stays empty and standard error gets the error
C9_NoPartialOutput ==
    /\ Len(stdout) <= 1
    /\ pc # "exited" => stdout = <<>>
    /\ (pc = "exited" /\ Succeeded) =>
        /\ stdout =
            <<[body |-> replies[Len(replies)].body,
               format |-> IF command \in {"get-step-logs", "tail-step-log",
                                          "get-pr-diff"}
                          THEN "text" ELSE "json"]>>
        /\ exitCode = 0
    /\ (pc = "exited" /\ ~Succeeded) =>
        /\ stdout = <<>>
        /\ stderr # <<>>
        /\ exitCode = 1
        /\ (command \in Commands /\ SetupErrors = <<>>) =>
                /\ LastError.label = "Error:"
                /\ LastError.message.kind \in
                        {"usage", "api", "unexpected", "notfound"}
        /\ (replies # <<>> /\ ~replies[Len(replies)].ok) =>
                LastError.message =
                    handleAxiosError(replies[Len(replies)].failure,
                                     calls[Len(calls)].op)

C9_Witness ==
    /\ pc = "exited"
    /\ command = "get-step-logs"
    /\ Len(replies) = 2
    /\ replies[1].ok
    /\ ~replies[2].ok
    /\ stdout = <<>>
    /\ LastError.message.kind = "api"

C9_WitnessSuccess ==
    /\ pc = "exited"
    /\ command = "get-step-logs"
    /\ Len(replies) = 2
    /\ Succeeded
    /\ stdout # <<>>
    /\ stdout[1].format = "text"

\* a network call has failed, or the resolver has thrown its not-found error
SomethingFailed ==
    \/ \E i \in DOMAIN replies : ~replies[i].ok
    \/ \E i \in DOMAIN stderr : stderr[i].message.kind = "notfound"

\* C10: a failed call or a failed resolution ends the process with status 1:
\* the step that meets the failure issues no request, none follows it, and
\* when the resolution failed the command's operation is never issued
C10_NoRetryAfterFailure ==
    /\ [](SomethingFailed =>
            /\ pc = "exited"
            /\ exitCode = 1
            /\ Len(replies) = Len(calls)
            /\ \A i \in 1..(Len(replies) - 1) : replies[i].ok
            /\ (command \in ResolverCommands /\ resolved = <<>>) =>
                    \A i \in DOMAIN calls : calls[i].op = "listPipelineRuns")
    /\ [][SomethingFailed' => calls' = calls]_vars

C10_Witness ==
    /\ command = "get-pipeline"
    /\ Len(calls) = 1
    /\ calls[1].op = "listPipelineRuns"
    /\ Len(replies) = 1
    /\ ~replies[1].ok
    /\ ~replies[1].failure.hasResponse
    /\ pc = "exited"
    /\ exitCode = 1

----------------------------------------------------------------------------
(* client.ts used as a library: SpecClient *)

Library == "<library>"

\* configurations a caller may hand to the constructor
LibraryConfigs ==
    {Config(Str(ApiBaseUrl), Str(<<"t">>), Undefined, Undefined, Undefined),
     Config(Str(SiteUrl), Undefined, Str(<<"u">>), Str(<<"p">>), Undefined),
     Config(Str(ApiBaseUrl), Undefined, Str(<<"u">>), Undefined, Undefined),
     Config(Str(<<>>), Str(<<"t">>), Undefined, Undefined, Undefined),
     Config(Undefined, Str(<<"t">>), Undefined, Undefined, Undefined)}

\* the histories the service may hold in library use
LibraryHistories ==
    {[newer |-> 0, older |-> <<>>],
     [newer |-> 0, older |-> <<Run(1, <<"{", "a", "}">>)>>]}

Ids == {<<"{", "a", "}">>, <<"a">>}
PrId == <<"7">>

InitClient ==
    /\ command = Library
    /\ args = <<>>
    /\ loaded \in {Returned(c) : c \in LibraryConfigs}
    /\ history = <<>>
    /\ pc = "new"
    /\ calls = <<>>
    /\ replies = <<>>
    /\ resolved = <<>>
    /\ stdout = <<>>
    /\ stderr = <<>>
    /\ exitCode = 0
    /\ outcome = [state |-> "none"]

Pending(op) == [op |-> op, state |-> "pending"]
ReturnedValue(op, body) == [body |-> body, op |-> op, state |-> "returned"]
Thrown(op, failure, message) ==
    [op |-> op, message |-> message, state |-> "threw", failure |-> failure]

\* new BitbucketClient(config)
construct ==
    /\ pc = "new"
    /\ IF ConfigErrors(loaded.config) = <<>>
       THEN /\ pc' = "idle"
            /\ outcome' = [state |-> "constructed"]
       ELSE /\ pc' = "invalid"
            /\ outcome' = Thrown("constructor",
                                 PlainError(ConfigErrors(loaded.config)[1]),
                                 SetupMessage(ConfigErrors(loaded.config)[1]))
    /\ UNCHANGED <<command, args, loaded, history, calls, replies, resolved,
                   stdout, stderr, exitCode>>

Invoke_cached(request) ==
    /\ pc = "idle"
    /\ Len(calls) < MaxOps
    /\ IF request \in Range(calls)
       THEN /\ outcome' = ReturnedValue(request.op, BareBody(""))
            /\ UNCHANGED <<calls, pc>>
       ELSE /\ calls' = Append(calls, request)
            /\ pc' = "awaiting"
            /\ outcome' = Pending(request.op)
    /\ UNCHANGED <<command, args, loaded, history, replies, resolved, stdout,
                   stderr, exitCode>>

\* an operation builds its request and awaits this.api.get / this.api.post
Invoke(request) ==
    /\ pc = "idle"
    /\ Len(calls) < MaxOps
    /\ calls' = Append(calls, request)
    /\ pc' = "awaiting"
    /\ outcome' = Pending(request.op)
    /\ UNCHANGED <<command, args, loaded, history, replies, resolved, stdout,
                   stderr, exitCode>>

listRepositories ==
    \E workspace \in Maybe(W), limit \in {Undefined, Num(2)} :
        LET ws == EffectiveWorkspace(ClientConfig, workspace)
        IN IF Truthy(ws)
           THEN Invoke(ListRepositoriesReq(ws.s, limit, Undefined))
           ELSE /\ pc = "idle"
                /\ outcome' =
                    LET error == PlainError(
                            "workspace parameter or defaultWorkspace config is required")
                    IN Thrown("listRepositories", error,
                              handleAxiosError(error, CatchLabel("listRepositories")))
                /\ UNCHANGED <<command, args, loaded, history, pc, calls,
                               replies, resolved, stdout, stderr, exitCode>>

getRepository == Invoke(GetRepositoryReq(W, R))

getPullRequests ==
    \E state \in Maybe(<<"OPEN">>), limit \in {Undefined, Num(2)} :
        /\ (limit # Undefined) => state # Undefined
        /\ Invoke(GetPullRequestsReq(W, R, state, limit))

getPullRequest == Invoke(GetPullRequestReq(W, R, PrId))

createPullRequest ==
    \E reviewers \in {Undefined, [t |-> "list", items |-> <<>>],
                      [t |-> "list", items |-> <<<<"{", "a", "}">>>>]} :
        Invoke(CreatePullRequestReq(W, R, <<"t">>, <<"d">>, <<"s">>, <<"m">>,
                                    reviewers))

approvePullRequest == Invoke(ApprovePullRequestReq(W, R, PrId))

mergePullRequest ==
    \E message \in Maybe(<<"m">>), strategy \in Maybe(<<"squash">>) :
        Invoke(MergePullRequestReq(W, R, PrId, message, strategy))

declinePullRequest ==
    \E message \in Maybe(<<"m">>) :
        Invoke(DeclinePullRequestReq(W, R, PrId, message))

getPullRequestComments == Invoke(GetPullRequestCommentsReq(W, R, PrId))

getPullRequestDiff == Invoke(GetPullRequestDiffReq(W, R, PrId))

listPipelineRuns ==
    \E limit \in {Undefined, Num(0), Num(2)},
       status \in Maybe(<<"FAILED">>),
       branch \in Maybe(<<"main">>),
       trigger \in Maybe(<<"push">>) :
        /\ (limit # Undefined) =>
                /\ (status = Undefined) <=> (branch = Undefined)
                /\ (branch = Undefined) <=> (trigger = Undefined)
        /\ Invoke(ListPipelineRunsReq(W, R, limit, status, branch, trigger))

getPipelineRun == \E uuid \in Ids : Invoke(GetPipelineRunReq(W, R, uuid))

runPipeline ==
    \E selector \in Maybe(<<"custom">>) :
        Invoke(RunPipelineReq(W, R,
            [ref_type |-> "branch", ref_name |-> <<"main">>,
             selector_type |-> selector,
             selector_pattern |-> IF Truthy(selector) THEN Str(<<"deploy">>)
                                  ELSE Undefined]))

stopPipeline == \E uuid \in Ids : Invoke(StopPipelineReq(W, R, uuid))

getPipelineSteps == \E uuid \in Ids : Invoke(GetPipelineStepsReq(W, R, uuid))

getPipelineStep ==
    \E uuid \in Ids, step \in Ids :
        /\ uuid # step
        /\ Invoke(GetPipelineStepReq(W, R, uuid, step))

getPipelineStepLogs ==
    \E uuid \in Ids, step \in Ids :
        /\ uuid = step
        /\ Invoke(GetPipelineStepLogsReq(W, R, uuid, step))

getPipelineStepLogTail ==
    \E uuid \in Ids, step \in Ids, bytes \in {Undefined, Num(5)} :
        /\ uuid # step
        /\ (bytes # Undefined) => StartsWith(uuid, "{")
        /\ Invoke(GetPipelineStepLogTailReq(W, R, uuid, step, bytes))

getRepositoryBranchingModel == Invoke(GetRepositoryBranchingModelReq(W, R))

getRepositoryBranchingModelSettings ==
    Invoke(GetRepositoryBranchingModelSettingsReq(W, R))

\* return response.data
OperationReturns ==
    /\ pc = "awaiting"
    /\ \E h \in LibraryHistories : \E body \in Bodies(h, calls[Len(calls)]) :
        /\ outcome' = ReturnedValue(outcome.op, body)
        /\ history' = IF calls[Len(calls)].op = "listPipelineRuns"
                      THEN <<h>> ELSE history
    /\ pc' = "idle"
    /\ UNCHANGED <<command, args, loaded, calls, replies, resolved, stdout,
                   stderr, exitCode>>

\* catch (error) { return this.handleAxiosError(error, "<operation>") }
OperationFails ==
    /\ pc = "awaiting"
    /\ \E failure \in Failures :
        outcome' = Thrown(outcome.op, failure,
                          handleAxiosError(failure, CatchLabel(outcome.op)))
    /\ pc' = "idle"
    /\ UNCHANGED <<command, args, loaded, history, calls, replies, resolved,
                   stdout, stderr, exitCode>>

NextClient ==
    \/ construct
    \/ listRepositories
    \/ getRepository
    \/ getPullRequests
    \/ getPullRequest
    \/ createPullRequest
    \/ approvePullRequest
    \/ mergePullRequest
    \/ declinePullRequest
    \/ getPullRequestComments
    \/ getPullRequestDiff
    \/ listPipelineRuns
    \/ getPipelineRun
    \/ runPipeline
    \/ stopPipeline
    \/ getPipelineSteps
    \/ getPipelineStep
    \/ getPipelineStepLogs
    \/ getPipelineStepLogTail
    \/ getRepositoryBranchingModel
    \/ getRepositoryBranchingModelSettings
    \/ OperationReturns
    \/ OperationFails

SpecClient == InitClient /\ [][NextClient]_vars

----------------------------------------------------------------------------
(* Properties of the client operations (SpecClient) *)

\* the last operation was rejected by the HTTP library
HttpLibraryFailure == outcome.state = "threw" /\ outcome.failure.axios

\* how a status code and a body read in a message
StatusText(status) ==
    CASE status = 404 -> "404"
      [] status = 500 -> "500"
      [] OTHER -> "?"

BodyText(data) ==
    CASE data = JsonObject("{\"error\":\"gone\"}") -> "{\"error\":\"gone\"}"
      [] data = JsonString("oops") -> "\"oops\""
      [] OTHER -> "?"

\* C7 as claimed: every transport failure or non-success response becomes one
\* thrown error whose message carries the operation's name, the HTTP status
\* and the body the server sent
C7_ErrorCarriesStatusAndBody ==
    HttpLibraryFailure =>
        /\ pc = "idle"
        /\ outcome.message.kind = "api"
        /\ outcome.message.operation = outcome.op
        /\ outcome.failure.hasResponse
        /\ outcome.message.status = StatusText(outcome.failure.status)
        /\ outcome.message.data = BodyText(outcome.failure.data)

\* what handleAxiosError does guarantee (C7 without its transport case): the
\* thrown error always carries the operation's name; it carries the HTTP status
\* and the server's body when the server answered, and reads "undefined" in
\* their places when no response came; the operation returns no value
C7_ErrorCarriesOperation ==
    HttpLibraryFailure =>
        /\ pc = "idle"
        /\ outcome.message.kind = "api"
        /\ outcome.message.prefix = "Bitbucket API error in "
        /\ outcome.message.operation = outcome.op
        /\ outcome.message.operation = calls[Len(calls)].op
        /\ IF outcome.failure.hasResponse
           THEN /\ outcome.message.status = StatusText(outcome.failure.status)
                /\ outcome.message.statusText = outcome.failure.statusText
                /\ outcome.message.data = BodyText(outcome.failure.data)
           ELSE /\ outcome.message.status = "undefined"
                /\ outcome.message.statusText = "undefined"
                /\ outcome.message.data = "undefined"

C7_Witness ==
    /\ HttpLibraryFailure
    /\ outcome.op = "getPipelineStepLogTail"
    /\ outcome.failure.hasResponse
    /\ outcome.failure.status = 500
    /\ outcome.message.data = "\"oops\""

C7_WitnessTransport ==
    /\ HttpLibraryFailure
    /\ outcome.op = "createPullRequest"
    /\ ~outcome.failure.hasResponse
    /\ outcome.message.status = "undefined"

\* the last operation threw an error of its own making
OwnFailure ==
    /\ outcome.state = "threw"
    /\ outcome.op # "constructor"
    /\ ~outcome.failure.axios

\* C8: a failure of an operation that is not an HTTP failure (listRepositories
\* with no workspace argument and no default workspace) becomes an error of
\* another kind than the API error, naming the operation and the condition; it
\* is thrown with no request issued, and every request listRepositories does
\* issue names a workspace
C8_OwnFailureBeforeRequest ==
    /\ [](OwnFailure =>
            /\ outcome.message.kind = "unexpected"
            /\ outcome.message.kind # "api"
            /\ outcome.message.prefix = "Unexpected error in "
            /\ outcome.message.operation = outcome.op
            /\ outcome.message.cause =
                "Error: workspace parameter or defaultWorkspace config is required"
            /\ outcome.op = "listRepositories"
            /\ ~Truthy(ClientConfig.defaultWorkspace))
    /\ [][OwnFailure' => (calls' = calls /\ pc' = pc)]_vars
    /\ [](\A i \in DOMAIN calls :
            calls[i].op = "listRepositories" =>
                /\ calls[i].ids[1] # <<>>
                /\ calls[i].ids[1] \in
                    {W} \cup (IF Truthy(ClientConfig.defaultWorkspace)
                              THEN {ClientConfig.defaultWorkspace.s} ELSE {}))

C8_Witness ==
    /\ OwnFailure
    /\ outcome.op = "listRepositories"
    /\ outcome.message.kind = "unexpected"
    /\ calls = <<>>
    /\ loaded.config.defaultWorkspace = Undefined

----------------------------------------------------------------------------
(* Properties of main's argument checks and exit status (Spec) *)

\* how many leading positional arguments each command's usage check demands
\* (list-repos checks none: its workspace and limit are both optional)
RequiredPositionals(c) ==
    CASE c \in {"get-step-logs", "tail-step-log"} -> 4
      [] c \in {"get-pipeline", "get-pipeline-steps", "stop-pipeline",
                "run-pipeline", "get-pr", "approve-pr", "merge-pr",
                "decline-pr", "get-pr-diff", "get-pr-comments"} -> 3
      [] c \in {"list-pipelines", "get-repo", "list-prs",
                "get-branching-model"} -> 2
      [] OTHER -> 0

\* a required positional argument of the command is missing (or empty)
ArgumentOmitted ==
    /\ command \in Commands
    /\ \E i \in 1..RequiredPositionals(command) : ~Truthy(Arg(i))

\* C11 as claimed: omitting a required positional argument of a command always
\* ends the invocation with a usage message and a non-zero exit status, with no
\* HTTP request issued
C11_UsageOnOmission ==
    ArgumentOmitted =>
        /\ calls = <<>>
        /\ pc = "exited" =>
            /\ exitCode # 0
            /\ LastError.message.kind = "usage"

\* C11, amended: omitting a required positional argument never issues an HTTP
\* request and always ends with exit status 1 and nothing on standard output;
\* the one error line is the command's usage message when the configuration
\* loaded and the client was constructed, and the configuration error
\* otherwise, because main sets the client up before it looks at the arguments
C11_UsageOnOmissionOnceConfigured ==
    ArgumentOmitted =>
        /\ calls = <<>>
        /\ stdout = <<>>
        /\ pc \in {"start", "exited"}
        /\ pc = "exited" =>
            /\ exitCode = 1
            /\ Len(stderr) = 1
            /\ LastError.label = "Error:"
            /\ IF SetupErrors = <<>>
               THEN LastError.message.kind = "usage"
               ELSE LastError.message = SetupMessage(SetupErrors[1])

C11_Witness ==
    /\ command = "merge-pr"
    /\ args = <<W, R>>
    /\ SetupErrors = <<>>
    /\ pc = "exited"
    /\ exitCode = 1
    /\ LastError.message.kind = "usage"
    /\ calls = <<>>

C11_WitnessNotConfigured ==
    /\ command = "get-step-logs"
    /\ Len(args) = 3
    /\ SetupErrors # <<>>
    /\ pc = "exited"
    /\ LastError.message.kind = "setup"

\* the failure paths of an invocation
NoArgumentsAtAll == command = NoCommand
InvalidConfiguration == command # NoCommand /\ SetupErrors # <<>>
UnknownCommandGiven == command \notin Commands \cup {NoCommand}
ApiError == \E i \in DOMAIN replies : ~replies[i].ok
ResolutionNotFound ==
    \E i \in DOMAIN stderr : stderr[i].message.kind = "notfound"
\* listRepositories was left without a workspace
NoWorkspace ==
    /\ command = "list-repos"
    /\ ~Truthy(EffectiveWorkspace(ClientConfig, Arg(1)))

FailurePath ==
    \/ NoArgumentsAtAll
    \/ ArgumentOmitted
    \/ InvalidConfiguration
    \/ ApiError
    \/ ResolutionNotFound
    \/ UnknownCommandGiven
    \/ NoWorkspace

\* C12: the process ends with exit status 1 on every failure path (no arguments,
\* a missing required argument, an invalid configuration, an API error, a
\* resolution that finds nothing, an unknown command), and only then: a
\* command that succeeds ends without process.exit(1), its result printed
C12_ExitOneIffFailure ==
    /\ exitCode \in {0, 1}
    /\ pc # "exited" => exitCode = 0
    /\ (ApiError \/ ResolutionNotFound) => pc = "exited"
    /\ pc = "exited" =>
        /\ exitCode = 1 <=> FailurePath
        /\ exitCode = 0 <=> Succeeded
        /\ NoArgumentsAtAll => stderr = UsageBanner
        /\ (UnknownCommandGiven /\ ~InvalidConfiguration) =>
                stderr = <<PlainLine("Unknown command: " \o command)>>
        /\ exitCode = 1 => (stderr # <<>> /\ stdout = <<>>)

C12_Witness ==
    /\ pc = "exited"
    /\ command = "bogus"
    /\ SetupErrors = <<>>
    /\ exitCode = 1
    /\ Len(stderr) = 1

C12_WitnessSuccess ==
    /\ pc = "exited"
    /\ command = "approve-pr"
    /\ Succeeded
    /\ exitCode = 0

----------------------------------------------------------------------------
(* Properties of the client's requests and configuration (SpecClient) *)

\* the request the client issued last
LastCall == calls[Len(calls)]

\* C13: a call of an operation whose inputs are accepted issues exactly one
\* HTTP request, whatever was requested before it (nothing is cached: a call
\* with the arguments of an earlier call issues the same request again);
\* neither its answer nor its failure issues another (no retry); and no
\* operation changes the client's configuration
C13_OneRequestPerCall ==
    /\ [][pc = "idle" =>
            IF calls' = calls
            THEN OwnFailure' /\ pc' = "idle"
            ELSE /\ Len(calls') = Len(calls) + 1
                 /\ calls' = Append(calls, LastCall')
                 /\ pc' = "awaiting"
                 /\ outcome' = Pending(LastCall'.op)]_vars
    /\ [][pc = "awaiting" =>
            /\ calls' = calls
            /\ pc' = "idle"
            /\ outcome'.state \in {"returned", "threw"}
            /\ outcome'.op = LastCall.op]_vars
    /\ [][loaded' = loaded]_vars

C13_Witness ==
    /\ pc = "idle"
    /\ Len(calls) = 2
    /\ calls[1] = calls[2]
    /\ calls[1].op = "getPipelineRun"
    /\ outcome.state = "returned"

C13_WitnessAfterFailure ==
    /\ pc = "awaiting"
    /\ Len(calls) = 2
    /\ calls[1] = calls[2]
    /\ outcome = Pending("stopPipeline")

\* the arguments listPipelineRuns is tried with
LimitInputs == {Undefined, NaN, Num(0), Num(2), Num(SearchWindow)}
StatusInputs == {Undefined, Str(<<>>), Str(<<"FAILED">>)}
BranchInputs == {Undefined, Str(<<>>), Str(<<"main">>)}
TriggerInputs == {Undefined, Str(<<"push">>)}

\* a filter is supplied when it is a non-empty string
Supplied(filter) == filter.t = "string" /\ Len(filter.s) > 0

\* the terms a query must hold, in the fixed order status, branch, trigger
ExpectedTerms(status, branch, trigger) ==
    SelectSeq(<<[field |-> "state.result.name", value |-> status],
                [field |-> "target.ref_name", value |-> branch],
                [field |-> "trigger.type", value |-> trigger]>>,
              LAMBDA term : Supplied(term.value))

\* q is the terms, each `field="value"`, with " AND " between neighbours
IsConjunctionOf(q, terms) ==
    /\ q.t = "query"
    /\ Len(q.parts) = 2 * Len(terms) - 1
    /\ \A i \in DOMAIN terms :
        /\ q.parts[2 * i - 1].field = terms[i].field
        /\ q.parts[2 * i - 1].value = terms[i].value.s
    /\ \A i \in 1..(Len(terms) - 1) : q.parts[2 * i].field = " AND "

\* the query parameters of a listPipelineRuns request are well formed
WellFormedQuery(params) ==
    /\ params.sort = Str("-created_on")
    /\ params.pagelen # Undefined =>
            (params.pagelen.t = "number" /\ params.pagelen.n # 0)
    /\ params.q # Undefined =>
        /\ Len(params.q.parts) \in {1, 3, 5}
        /\ \A i \in DOMAIN params.q.parts :
            IF i % 2 = 0 THEN params.q.parts[i].field = " AND "
            ELSE /\ params.q.parts[i].field \in
                        {"state.result.name", "target.ref_name", "trigger.type"}
                 /\ params.q.parts[i].value # <<>>
        /\ \A i, j \in DOMAIN params.q.parts :
            (i < j /\ i % 2 = 1 /\ j % 2 = 1) =>
                <<params.q.parts[i].field, params.q.parts[j].field>> \in
                    {<<"state.result.name", "target.ref_name">>,
                     <<"state.result.name", "trigger.type">>,
                     <<"target.ref_name", "trigger.type">>}

\* C14: listPipelineRuns always sorts by -created_on; it sends pagelen exactly
\* when a non-zero limit is given, and then that limit; it sends q exactly when
\* at least one of status, branch, trigger is supplied, and then q is one term
\* per supplied filter, in the order status, branch, trigger, joined by " AND "
\* (a property of the function alone, so it is evaluated in the states before
\* the first request); every listPipelineRuns request the client has issued
\* has such a query
C14_QueryFromSuppliedFilters ==
    /\ calls = <<>> =>
        \A limit \in LimitInputs, status \in StatusInputs,
           branch \in BranchInputs, trigger \in TriggerInputs :
        LET params == ListPipelineRunsParams(limit, status, branch, trigger)
            terms == ExpectedTerms(status, branch, trigger)
        IN /\ params.sort = Str("-created_on")
           /\ IF limit.t = "number" /\ limit.n # 0
              THEN params.pagelen = limit
              ELSE params.pagelen = Undefined
           /\ IF Len(terms) = 0
              THEN params.q = Undefined
              ELSE IsConjunctionOf(params.q, terms)
           /\ params.state = Undefined
           /\ WellFormedQuery(params)
    /\ \A i \in DOMAIN calls :
        calls[i].op = "listPipelineRuns" =>
            /\ WellFormedQuery(calls[i].params)
            /\ calls[i].method = "GET"
            /\ calls[i].ids = <<W, R>>

C14_Witness ==
    /\ calls # <<>>
    /\ LastCall.op = "listPipelineRuns"
    /\ LastCall.params.pagelen = Num(2)
    /\ LastCall.params.q # Undefined
    /\ Len(LastCall.params.q.parts) = 5
    /\ outcome.state = "returned"

C14_WitnessNoFilter ==
    /\ calls # <<>>
    /\ LastCall.op = "listPipelineRuns"
    /\ LastCall.params.pagelen = Undefined
    /\ LastCall.params.q = Undefined
    /\ LastCall.params.sort = Str("-created_on")
    /\ outcome.state = "returned"

----------------------------------------------------------------------------
(* Properties of the resolver's choice (Spec) *)

\* the runs of the fetched window, in the order the server returned them
Window == IF Fetched THEN replies[1].body.values ELSE <<>>

\* the first position of the window with build number n
FirstMatch(n) ==
    CHOOSE i \in Matches(n) : \A j \in Matches(n) : i <= j

\* C15: what the resolver returns is the token itself when it made no lookup,
\* and otherwise the uuid of the first run of the fetched window, in the
\* server's order, that has the requested build number; it never returns
\* anything else, and returns at most once
C15_FirstMatchInWindow ==
    /\ Len(resolved) <= 1
    /\ resolved # <<>> =>
        /\ ResolverCalled
        /\ IF LookupCalls = {}
           THEN resolved[1] = Token
           ELSE /\ Fetched
                /\ Matches(ParseInt(Token).n) # {}
                /\ resolved[1] = Window[FirstMatch(ParseInt(Token).n)].uuid
        /\ \/ resolved[1] = Token
           \/ \E i \in DOMAIN Window : resolved[1] = Window[i].uuid

C15_Witness ==
    /\ ResolverCalled
    /\ Token = <<"1">>
    /\ Window = <<Run(1, <<"{", "b", "}">>), Run(1, <<"{", "a", "}">>)>>
    /\ resolved = <<<<"{", "b", "}">>>>
    /\ pc = "exited"
    /\ exitCode = 0

----------------------------------------------------------------------------
(* Properties of the identifiers in pipeline requests (SpecClient) *)

\* the operations that put a pipeline identifier in the path, and those that
\* put a step identifier after it
PipelineOperations ==
    {"getPipelineRun", "stopPipeline", "getPipelineSteps", "getPipelineStep",
     "getPipelineStepLogs", "getPipelineStepLogTail"}
StepOperations ==
    {"getPipelineStep", "getPipelineStepLogs", "getPipelineStepLogTail"}

BeginsWithBrace(s) == Len(s) >= 1 /\ s[1] = "{"

\* sent is identifier as the claim wants it sent
SentAsClaimed(identifier, sent) ==
    /\ BeginsWithBrace(sent)
    /\ IF BeginsWithBrace(identifier)
       THEN sent = identifier
       ELSE /\ Len(sent) = Len(identifier) + 2
            /\ sent[Len(sent)] = "}"
            /\ SubSeq(sent, 2, Len(sent) - 1) = identifier

\* C16: in the six pipeline operations the pipeline and step identifiers of the
\* request path begin with "{": an identifier that begins with "{" is sent as
\* it is, any other is sent as "{identifier}", and wrapping what was wrapped
\* changes nothing (a property of the operations alone, evaluated in the states
\* before the first request); the identifiers of every request issued begin
\* with "{" and are left alone by another wrapping
C16_IdentifiersWrappedOnce ==
    /\ calls = <<>> =>
        \A id \in IdTokens :
            /\ SentAsClaimed(id, EncodeUuid(id))
            /\ EncodeUuid(EncodeUuid(id)) = EncodeUuid(id)
            /\ \A req \in {GetPipelineRunReq(W, R, id),
                           StopPipelineReq(W, R, id),
                           GetPipelineStepsReq(W, R, id),
                           GetPipelineStepReq(W, R, id, StepToken),
                           GetPipelineStepLogsReq(W, R, id, StepToken),
                           GetPipelineStepLogTailReq(W, R, id, StepToken,
                                                     Undefined)} :
                /\ req.op \in PipelineOperations
                /\ SentAsClaimed(id, req.ids[3])
            /\ \A req \in {GetPipelineStepReq(W, R, StepToken, id),
                           GetPipelineStepLogsReq(W, R, StepToken, id),
                           GetPipelineStepLogTailReq(W, R, StepToken, id,
                                                     Undefined)} :
                /\ req.op \in StepOperations
                /\ SentAsClaimed(id, req.ids[4])
    /\ \A i \in DOMAIN calls :
        /\ calls[i].op \in PipelineOperations =>
            /\ Len(calls[i].ids) >= 3
            /\ \E id \in Ids : SentAsClaimed(id, calls[i].ids[3])
            /\ SentAsClaimed(calls[i].ids[3], calls[i].ids[3])
        /\ calls[i].op \in StepOperations =>
            /\ Len(calls[i].ids) = 4
            /\ \E id \in Ids : SentAsClaimed(id, calls[i].ids[4])
            /\ SentAsClaimed(calls[i].ids[4], calls[i].ids[4])

\* getPipelineStep is called with one identifier in braces and one without:
\* both reach the path in braces
C16_Witness ==
    /\ calls # <<>>
    /\ LastCall.op = "getPipelineStep"
    /\ LastCall.ids[3] = <<"{", "a", "}">>
    /\ LastCall.ids[4] = <<"{", "a", "}">>
    /\ outcome.state = "returned"

----------------------------------------------------------------------------
(* The client under both of its users: the CLI and a library caller *)

InitProgram == Init \/ InitClient

NextProgram == Next \/ NextClient

SpecProgram == InitProgram /\ [][NextProgram]_vars

\* a string with something in it
NonEmpty(v) == v.t = "string" /\ Len(v.s) > 0

\* what the constructor demands of this.config
Acceptable(config) ==
    /\ NonEmpty(config.baseUrl)
    /\ \/ NonEmpty(config.token)
       \/ NonEmpty(config.username) /\ NonEmpty(config.password)

\* the configuration handed to the constructor is not acceptable once normalized
Rejected ==
    /\ ~loaded.throws
    /\ ~Acceptable(normalizeBitbucketConfig(loaded.config))

\* C17: a client exists only for a configuration that, normalized, has a
\* non-empty base URL and a token or both username and password; for any other
\* the constructor throws: a library caller gets the error and no client, the
\* CLI prints the error and exits with status 1 before the command runs, and
\* in both cases no HTTP request is ever issued
C17_ClientOnlyFromValidConfig ==
    /\ command = Library =>
        /\ pc = "new" => calls = <<>>
        /\ pc \in {"idle", "awaiting"} => ~Rejected
        /\ calls # <<>> => ~Rejected
        /\ (Rejected /\ pc # "new") =>
            /\ pc = "invalid"
            /\ calls = <<>>
            /\ outcome.state = "threw"
            /\ outcome.op = "constructor"
            /\ outcome.message.kind = "setup"
            /\ outcome.message.text =
                IF ~NonEmpty(normalizeBitbucketConfig(loaded.config).baseUrl)
                THEN "baseUrl is required in BitbucketConfig"
                ELSE "Either token or username/password is required in BitbucketConfig"
        /\ pc = "invalid" => Rejected
    /\ (command \notin {Library, NoCommand} /\ Rejected) =>
        /\ pc \in {"start", "exited"}
        /\ calls = <<>>
        /\ stdout = <<>>
        /\ pc = "exited" =>
            /\ exitCode = 1
            /\ Len(stderr) = 1
            /\ LastError.label = "Error:"
            /\ LastError.message.kind = "setup"
            /\ LastError.message.text =
                "Either token or username/password is required in BitbucketConfig"
    /\ (command \notin {Library, NoCommand} /\ calls # <<>>) =>
            (~loaded.throws /\ ~Rejected)

C17_Witness ==
    /\ command = Library
    /\ pc = "invalid"
    /\ loaded.config.username = Str(<<"u">>)
    /\ loaded.config.password = Undefined
    /\ loaded.config.token = Undefined
    /\ outcome.state = "threw"
    /\ calls = <<>>

C17_WitnessNoBaseUrl ==
    /\ command = Library
    /\ pc = "invalid"
    /\ loaded.config.baseUrl = Str(<<>>)
    /\ outcome.message.text = "baseUrl is required in BitbucketConfig"

C17_WitnessCli ==
    /\ command = "get-repo"
    /\ args = <<W, R>>
    /\ Rejected
    /\ pc = "exited"
    /\ exitCode = 1
    /\ calls = <<>>

----------------------------------------------------------------------------
(* client.ts: normalizeBitbucketConfig called on its own: SpecConfig *)

MaxPathLen == 4

Normalizer == "normalizeBitbucketConfig"

Hosts == {"bitbucket.org", "api.bitbucket.org", "example.com"}

\* a path is "/" signs and segments; two segments are never side by side
PathInputs ==
    {p \in SeqsUpTo({"/", "team", "2.0"}, MaxPathLen) :
        /\ p # <<>> => p[1] = "/"
        /\ \A i \in 1..(Len(p) - 1) : p[i] = "/" \/ p[i + 1] = "/"}

\* base URLs: scheme, host and path, and some that new URL() rejects
UrlInputs ==
    {<<scheme, host>> \o path :
        scheme \in Schemes, host \in Hosts, path \in PathInputs}
    \cup {<<>>, <<"garbage">>, <<"garbage", "/">>, <<"bitbucket.org", "/", "team">>}

ConfigInputs ==
    {Config(url, Str(<<"t">>), Undefined, Undefined, workspace) :
        url \in {Str(u) : u \in UrlInputs} \cup {Undefined},
        workspace \in {Undefined, Str(<<>>), Str(<<"d">>), Str(<<"team">>)}}

InitConfig ==
    /\ command = Normalizer
    /\ args = <<>>
    /\ loaded \in {Returned(c) : c \in ConfigInputs}
    /\ history = <<>>
    /\ pc = "raw"
    /\ calls = <<>>
    /\ replies = <<>>
    /\ resolved = <<>>
    /\ stdout = <<>>
    /\ stderr = <<>>
    /\ exitCode = 0
    /\ outcome = [state |-> "none"]

Normalized(first, config) ==
    [state |-> "normalized", config |-> config, first |-> first]

Normalize_inPlace ==
    /\ pc = "raw"
    /\ outcome' = Normalized(normalizeBitbucketConfig(loaded.config),
                             normalizeBitbucketConfig(loaded.config))
    /\ loaded' = Returned(normalizeBitbucketConfig(loaded.config))
    /\ pc' = "normalized"
    /\ UNCHANGED <<command, args, history, calls, replies, resolved,
                   stdout, stderr, exitCode>>

\* normalizeBitbucketConfig(rawConfig): a copy is changed and returned
Normalize ==
    /\ pc = "raw"
    /\ outcome' = Normalized(normalizeBitbucketConfig(loaded.config),
                             normalizeBitbucketConfig(loaded.config))
    /\ pc' = "normalized"
    /\ UNCHANGED <<command, args, loaded, history, calls, replies, resolved,
                   stdout, stderr, exitCode>>

\* normalizeBitbucketConfig called on what it returned
NormalizeAgain ==
    /\ pc = "normalized"
    /\ outcome' = Normalized(outcome.config,
                             normalizeBitbucketConfig(outcome.config))
    /\ pc' = "renormalized"
    /\ UNCHANGED <<command, args, loaded, history, calls, replies, resolved,
                   stdout, stderr, exitCode>>

NextConfig ==
    \/ Normalize
    \/ NormalizeAgain

SpecConfig == InitConfig /\ [][NextConfig]_vars

\* new URL(baseUrl) does not throw
Parseable(config) ==
    config.baseUrl.t = "string" /\ ParseUrl(config.baseUrl.s).ok

EndsWithSlash(url) == Len(url) >= 1 /\ url[Len(url)] = "/"

\* C18: normalizing a normalized configuration returns an equal configuration;
\* the base URL of the result does not end with "/" when the input URL parses;
\* a default workspace that was supplied is kept, whatever the URL path holds;
\* a configuration whose base URL does not parse is returned as it is; the
\* credentials are never touched; and the caller's object is never changed
C18_NormalizeIdempotentConservative ==
    /\ [](pc = "renormalized" =>
            /\ outcome.config = outcome.first
            /\ outcome.first = normalizeBitbucketConfig(loaded.config))
    /\ [](pc = "normalized" =>
            /\ outcome.first = outcome.config
            /\ Parseable(loaded.config) =>
                /\ outcome.config.baseUrl.t = "string"
                /\ ~EndsWithSlash(outcome.config.baseUrl.s)
                /\ Parseable(outcome.config)
            /\ NonEmpty(loaded.config.defaultWorkspace) =>
                outcome.config.defaultWorkspace = loaded.config.defaultWorkspace
            /\ ~Parseable(loaded.config) => outcome.config = loaded.config
            /\ outcome.config.token = loaded.config.token
            /\ outcome.config.username = loaded.config.username
            /\ outcome.config.password = loaded.config.password)
    /\ [][loaded' = loaded]_vars

C18_Witness ==
    /\ pc = "renormalized"
    /\ loaded.config.baseUrl = Str(<<"https://", "bitbucket.org", "/", "team", "/", "/">>)
    /\ loaded.config.defaultWorkspace = Str(<<"d">>)
    /\ outcome.first.baseUrl = Str(ApiBaseUrl)
    /\ outcome.config.defaultWorkspace = Str(<<"d">>)

C18_WitnessSlashes ==
    /\ pc = "renormalized"
    /\ loaded.config.baseUrl = Str(<<"http://", "example.com", "/", "team", "/", "/">>)
    /\ outcome.config.baseUrl = Str(<<"http://", "example.com", "/", "team">>)

C18_WitnessUnparseable ==
    /\ pc = "renormalized"
    /\ loaded.config.baseUrl = Str(<<"garbage", "/">>)
    /\ outcome.config = loaded.config

====
